---- MODULE Spec2Model ----
(***************************************************************************)
(* Post-EEG comparison calculator (posteeg_app.py).                        *)
(*                                                                         *)
(* The script is re-run from top to bottom on every widget change; one     *)
(* run reads the sidebar inputs, evaluates the four variants, picks the    *)
(* best 20-year total and builds the cash-flow curves.                     *)
(*                                                                         *)
(* Python floats are modelled as exact rationals [n, d] in lowest terms    *)
(* with d > 0: the arithmetic is the arithmetic of the source without the  *)
(* rounding of IEEE doubles.                                               *)
(***************************************************************************)
EXTENDS Integers, Sequences, FiniteSets

VARIABLES inp, split, results, best_20, df_line, call

vars == <<inp, split, results, best_20, df_line, call>>

-----------------------------------------------------------------------------
(* float arithmetic as exact rationals *)

Abs(x) == IF x < 0 THEN -x ELSE x

RECURSIVE GCD(_, _)
GCD(a, b) == IF b = 0 THEN a ELSE GCD(b, a % b)

Q(n, d) ==
    LET s == IF d < 0 THEN -1 ELSE 1
        g == GCD(Abs(n), Abs(d))
    IN  [n |-> (s * n) \div g, d |-> (s * d) \div g]

R(k) == [n |-> k, d |-> 1]

Zero == R(0)

\* Optional[float]: None is a value outside the rationals (d = 0)
None == [n |-> 0, d |-> 0]

\* the exception float division raises on a zero divisor
ZeroDivisionError == [n |-> 1, d |-> 0]

IsFloat(x) == x.d > 0

RAdd(a, b) == Q(a.n * b.d + b.n * a.d, a.d * b.d)

RNeg(a) == [n |-> -a.n, d |-> a.d]

RSub(a, b) == RAdd(a, RNeg(b))

RMul(a, b) == Q(a.n * b.n, a.d * b.d)

RDiv(a, b) == IF b.n = 0 THEN ZeroDivisionError ELSE Q(a.n * b.d, a.d * b.n)

RLe(a, b) == a.n * b.d <= b.n * a.d

RLt(a, b) == a.n * b.d < b.n * a.d

\* Python's min(a, b) and max(a, b): the first argument unless the second
\* is strictly smaller (strictly greater)
RMin(a, b) == IF RLt(b, a) THEN b ELSE a

RMax(a, b) == IF RLt(a, b) THEN b ELSE a

-----------------------------------------------------------------------------
(* Hilfsfunktionen *)

euro_per_kwh_from_cent(cent) == RDiv(cent, R(100))

\* clamp without the upper limit
clamp_no_hi(x, lo, hi) == RMax(lo, x)

clamp(x, lo, hi) == RMax(lo, RMin(hi, x))

\* the allocator with max in place of min
compute_self_consumed_kwh_max(generation_kwh, consumption_kwh, self_pct) ==
    LET pct == clamp(self_pct, R(0), R(100))
        target_self == RMul(generation_kwh, RDiv(pct, R(100)))
    IN  RMax(target_self, consumption_kwh)

\* the allocator without the consumption ceiling
compute_self_consumed_kwh_no_ceiling(generation_kwh, consumption_kwh, self_pct) ==
    LET pct == clamp(self_pct, R(0), R(100))
    IN  RMul(generation_kwh, RDiv(pct, R(100)))

compute_self_consumed_kwh(generation_kwh, consumption_kwh, self_pct) ==
    LET pct == clamp(self_pct, R(0), R(100))
        target_self == RMul(generation_kwh, RDiv(pct, R(100)))
    IN  RMin(target_self, consumption_kwh)

\* payback with "annual_cashflow < 0" in place of "<= 0"
payback_years_lt_annual(invest, annual_cashflow) ==
    IF RLe(invest, Zero) THEN Zero
    ELSE IF RLt(annual_cashflow, Zero) THEN None
    ELSE RDiv(invest, annual_cashflow)

\* payback with "invest < 0" in place of "<= 0"
payback_years_lt_invest(invest, annual_cashflow) ==
    IF RLt(invest, Zero) THEN Zero
    ELSE IF RLe(annual_cashflow, Zero) THEN None
    ELSE RDiv(invest, annual_cashflow)

\* payback with the quotient inverted
payback_years_inverted(invest, annual_cashflow) ==
    IF RLe(invest, Zero) THEN Zero
    ELSE IF RLe(annual_cashflow, Zero) THEN None
    ELSE RDiv(annual_cashflow, invest)

payback_years(invest, annual_cashflow) ==
    IF RLe(invest, Zero) THEN Zero
    ELSE IF RLe(annual_cashflow, Zero) THEN None
    ELSE RDiv(invest, annual_cashflow)

-----------------------------------------------------------------------------
(* Ergebnisstruktur *)

Result(name, invest_eur, annual_cashflow_eur, total_10y_eur, total_20y_eur, payback) ==
    [name |-> name,
     invest_eur |-> invest_eur,
     annual_cashflow_eur |-> annual_cashflow_eur,
     total_10y_eur |-> total_10y_eur,
     total_20y_eur |-> total_20y_eur,
     payback_years |-> payback]

-----------------------------------------------------------------------------
(* Variantenberechnungen *)

variant1_full_feed_in(generation_kwh, market_value_cent) ==
    LET mv == euro_per_kwh_from_cent(market_value_cent)
        annual == RMul(generation_kwh, mv)
        invest == Zero
    IN  Result("V1 Volleinspeisung (Marktwert)",
               invest,
               annual,
               RMul(R(10), annual),
               RMul(R(20), annual),
               payback_years(invest, annual))

\* the locals self_kwh and export_kwh of an evaluator
EnergySplit(generation_kwh, consumption_kwh, self_pct) ==
    LET self_kwh == compute_self_consumed_kwh(generation_kwh, consumption_kwh, self_pct)
    IN  [self_kwh |-> self_kwh,
         export_kwh |-> RMax(Zero, RSub(generation_kwh, self_kwh))]

\* V2/V3 with the 20-year total built from 10 years
variant_self_consumption_10(name, generation_kwh, consumption_kwh, self_pct, invest_eur, retail_cent, export_cent) ==
    LET retail == euro_per_kwh_from_cent(retail_cent)
        export_price == euro_per_kwh_from_cent(export_cent)
        e == EnergySplit(generation_kwh, consumption_kwh, self_pct)
        annual == RAdd(RMul(e.self_kwh, retail), RMul(e.export_kwh, export_price))
    IN  Result(name,
               invest_eur,
               annual,
               RAdd(RNeg(invest_eur), RMul(R(10), annual)),
               RAdd(RNeg(invest_eur), RMul(R(10), annual)),
               payback_years(invest_eur, annual))

variant_self_consumption(name, generation_kwh, consumption_kwh, self_pct, invest_eur, retail_cent, export_cent) ==
    LET retail == euro_per_kwh_from_cent(retail_cent)
        export_price == euro_per_kwh_from_cent(export_cent)
        e == EnergySplit(generation_kwh, consumption_kwh, self_pct)
        annual == RAdd(RMul(e.self_kwh, retail), RMul(e.export_kwh, export_price))
    IN  Result(name,
               invest_eur,
               annual,
               RAdd(RNeg(invest_eur), RMul(R(10), annual)),
               RAdd(RNeg(invest_eur), RMul(R(20), annual)),
               payback_years(invest_eur, annual))

variant4_new_system(new_generation_kwh, consumption_kwh, self_pct, invest_eur, retail_cent, eeg_cent) ==
    LET retail == euro_per_kwh_from_cent(retail_cent)
        eeg == euro_per_kwh_from_cent(eeg_cent)
        e == EnergySplit(new_generation_kwh, consumption_kwh, self_pct)
        annual == RAdd(RMul(e.self_kwh, retail), RMul(e.export_kwh, eeg))
    IN  Result("V4 Neuanlage (EEG + EV)",
               invest_eur,
               annual,
               RAdd(RNeg(invest_eur), RMul(R(10), annual)),
               RAdd(RNeg(invest_eur), RMul(R(20), annual)),
               payback_years(invest_eur, annual))

-----------------------------------------------------------------------------
(* Sidebar Eingaben *)

\* the widgets' default values: the inputs of the first run of the script
Defaults ==
    [gen_old |-> R(4500),
     cons |-> R(4000),
     market_ct |-> Q(7, 2),
     retail_ct |-> R(32),
     self_v2 |-> R(30),
     inv_v2 |-> R(1200),
     self_v3 |-> R(60),
     inv_v3_umbau |-> R(1200),
     battery_size_kwh |-> R(8),
     battery_price_per_kwh |-> R(500),
     inv_v4 |-> R(16000),
     gen_new |-> R(7000),
     self_v4 |-> R(35),
     eeg_ct |-> R(8)]

Widgets == DOMAIN Defaults

battery_cost(i) == RMul(i.battery_size_kwh, i.battery_price_per_kwh)

inv_v3(i) == RAdd(i.inv_v3_umbau, battery_cost(i))

\* number of values the user is taken to enter for the consumption and for
\* the V2 self-consumption slider
NumCons == 2
NumPctV2 == 2

Prefix(seq, k) == {seq[j] : j \in 1..(IF k < Len(seq) THEN k ELSE Len(seq))}

\* the values the user enters, per widget: number inputs have min_value 0.0,
\* the sliders run over the integers 0..100
Choices ==
    [gen_old |-> {R(4500), R(0)},
     cons |-> Prefix(<<R(4000), R(1000), R(0), R(6000)>>, NumCons),
     market_ct |-> {Q(7, 2), R(0)},
     retail_ct |-> {R(32), Q(7, 2)},
     self_v2 |-> Prefix(<<R(30), R(0), R(100), R(60)>>, NumPctV2),
     inv_v2 |-> {R(1200), R(0)},
     self_v3 |-> {R(60), R(30)},
     inv_v3_umbau |-> {R(1200), R(0)},
     battery_size_kwh |-> {R(8), R(0)},
     battery_price_per_kwh |-> {R(500)},
     inv_v4 |-> {R(16000), R(0)},
     gen_new |-> {R(7000), R(0)},
     self_v4 |-> {R(35)},
     eeg_ct |-> {R(8)}]

-----------------------------------------------------------------------------
(* Berechnung *)

\* the run with V4's export paid at the market value instead of the EEG rate
compute_results_v4_market(i) ==
    << variant1_full_feed_in(i.gen_old, i.market_ct),
       variant_self_consumption("V2 Eigenverbrauch (ohne Speicher)",
           i.gen_old, i.cons, i.self_v2, i.inv_v2, i.retail_ct, i.market_ct),
       variant_self_consumption("V3 Eigenverbrauch + Speicher",
           i.gen_old, i.cons, i.self_v3, inv_v3(i), i.retail_ct, i.market_ct),
       variant4_new_system(i.gen_new, i.cons, i.self_v4, i.inv_v4,
           i.retail_ct, i.market_ct) >>

compute_results(i) ==
    << variant1_full_feed_in(i.gen_old, i.market_ct),
       variant_self_consumption("V2 Eigenverbrauch (ohne Speicher)",
           i.gen_old, i.cons, i.self_v2, i.inv_v2, i.retail_ct, i.market_ct),
       variant_self_consumption("V3 Eigenverbrauch + Speicher",
           i.gen_old, i.cons, i.self_v3, inv_v3(i), i.retail_ct, i.market_ct),
       variant4_new_system(i.gen_new, i.cons, i.self_v4, i.inv_v4,
           i.retail_ct, i.eeg_ct) >>

\* self_kwh and export_kwh inside the evaluator calls for V2, V3 and V4
compute_split(i) ==
    [k \in 2..4 |->
        IF k = 2 THEN EnergySplit(i.gen_old, i.cons, i.self_v2)
        ELSE IF k = 3 THEN EnergySplit(i.gen_old, i.cons, i.self_v3)
        ELSE EnergySplit(i.gen_new, i.cons, i.self_v4)]

\* the scan replacing the running maximum on an equal key as well
RECURSIVE MaxScan_ge(_, _, _)
MaxScan_ge(rs, k, best) ==
    IF k > Len(rs) THEN best
    ELSE MaxScan_ge(rs, k + 1,
                    IF RLe(best.total_20y_eur, rs[k].total_20y_eur) THEN rs[k] ELSE best)

\* max(results, key=lambda x: x.total_20y_eur): the running maximum is
\* replaced only by a strictly greater key
RECURSIVE MaxScan(_, _, _)
MaxScan(rs, k, best) ==
    IF k > Len(rs) THEN best
    ELSE MaxScan(rs, k + 1,
                 IF RLt(best.total_20y_eur, rs[k].total_20y_eur) THEN rs[k] ELSE best)

max_total_20y(rs) == MaxScan(rs, 2, rs[1])

-----------------------------------------------------------------------------
(* Cashflow Linienchart (0..20 Jahre) *)

\* range(0, 20): the last year missing
years_20 == [k \in 1..20 |-> k - 1]

years == [k \in 1..21 |-> k - 1]

cashflow_curve(invest, annual) ==
    [k \in 1..Len(years) |-> RAdd(RNeg(invest), RMul(annual, R(years[k])))]

line_frame(rs) ==
    [k \in 1..Len(rs) |-> cashflow_curve(rs[k].invest_eur, rs[k].annual_cashflow_eur)]

-----------------------------------------------------------------------------
(* one run of the script *)

NoCall == [fn |-> "none", args |-> <<>>, done |-> FALSE, ret |-> None]

Run(i) ==
    /\ inp' = i
    /\ split' = compute_split(i)
    /\ results' = compute_results(i)
    /\ best_20' = max_total_20y(results')
    /\ df_line' = line_frame(results')

Init ==
    /\ inp = Defaults
    /\ split = compute_split(Defaults)
    /\ results = compute_results(Defaults)
    /\ best_20 = max_total_20y(results)
    /\ df_line = line_frame(results)
    /\ call = NoCall

\* the user changes one widget and the script runs again
Rerun ==
    \E w \in Widgets : \E v \in Choices[w] :
        /\ v # inp[w]
        /\ Run([inp EXCEPT ![w] = v])
        /\ UNCHANGED call

Next == Rerun

Spec == Init /\ [][Next]_vars

-----------------------------------------------------------------------------
(* the helper functions called on their own, on arguments the widgets do    *)
(* not produce as well: negative amounts, percentages outside 0..100        *)

MaxArg == 3
MaxPctOver == 2

KwhArgs == {R(500 * k) : k \in -1..MaxArg}

PctArgs == {R(25 * k) : k \in -MaxPctOver..(4 + MaxPctOver)}

InvestArgs == {R(400 * k) : k \in -1..MaxArg}

AnnualArgs == {R(150 * k) : k \in -1..MaxArg}

PendingCalls ==
    {[fn |-> "compute_self_consumed_kwh", args |-> <<g, c, p>>, done |-> FALSE, ret |-> None] :
        g \in KwhArgs, c \in KwhArgs, p \in PctArgs}
    \cup
    {[fn |-> "payback_years", args |-> <<i, a>>, done |-> FALSE, ret |-> None] :
        i \in InvestArgs, a \in AnnualArgs}

InitFn ==
    /\ inp = Defaults
    /\ split = compute_split(Defaults)
    /\ results = compute_results(Defaults)
    /\ best_20 = max_total_20y(results)
    /\ df_line = line_frame(results)
    /\ call \in PendingCalls

CallAllocate ==
    /\ call.fn = "compute_self_consumed_kwh"
    /\ ~call.done
    /\ call' = [call EXCEPT !.done = TRUE,
                            !.ret = compute_self_consumed_kwh(call.args[1], call.args[2], call.args[3])]
    /\ UNCHANGED <<inp, split, results, best_20, df_line>>

CallPayback ==
    /\ call.fn = "payback_years"
    /\ ~call.done
    /\ call' = [call EXCEPT !.done = TRUE,
                            !.ret = payback_years(call.args[1], call.args[2])]
    /\ UNCHANGED <<inp, split, results, best_20, df_line>>

NextFn == CallAllocate \/ CallPayback

SpecFn == InitFn /\ [][NextFn]_vars

-----------------------------------------------------------------------------
(* Properties *)

\* what the script passes to the evaluator of variant k (1..4)
VGen(k) == IF k = 4 THEN inp.gen_new ELSE inp.gen_old

VPct(k) == IF k = 2 THEN inp.self_v2 ELSE IF k = 3 THEN inp.self_v3 ELSE inp.self_v4

VExportCt(k) == IF k = 4 THEN inp.eeg_ct ELSE inp.market_ct

VInvest(k) ==
    IF k = 1 THEN Zero
    ELSE IF k = 2 THEN inp.inv_v2
    ELSE IF k = 3 THEN RAdd(inp.inv_v3_umbau, RMul(inp.battery_size_kwh, inp.battery_price_per_kwh))
    ELSE inp.inv_v4

Linear(r, y) == RAdd(RNeg(r.invest_eur), RMul(R(y), r.annual_cashflow_eur))

AllocDone == call.fn = "compute_self_consumed_kwh" /\ call.done

PaybackDone == call.fn = "payback_years" /\ call.done

C2_ExportIsRemainder ==
    \A k \in 2..4 :
        /\ split[k].export_kwh = RSub(VGen(k), split[k].self_kwh)
        /\ RLe(Zero, split[k].export_kwh)

\* C2 witness: V2 with the consumption as the ceiling and a positive export
C2_Witness ==
    /\ inp.gen_old = R(4500)
    /\ inp.cons = R(1000)
    /\ split[2].self_kwh = R(1000)
    /\ split[2].export_kwh = R(3500)

\* C3: every Result has total_10y_eur = -invest_eur + 10 * annual_cashflow_eur
\* and total_20y_eur = -invest_eur + 20 * annual_cashflow_eur.
C3_TotalsLinear ==
    \A k \in 1..4 :
        /\ results[k].total_10y_eur = Linear(results[k], 10)
        /\ results[k].total_20y_eur = Linear(results[k], 20)

\* C3 witness: the default inputs, V2 with 1200 invested and 542.25 a year
C3_Witness ==
    /\ results[2].invest_eur = R(1200)
    /\ results[2].annual_cashflow_eur = Q(2169, 4)
    /\ results[2].total_10y_eur = Q(8445, 2)
    /\ results[2].total_20y_eur = R(9645)
    /\ RLt(Zero, results[1].total_20y_eur)

\* C4: payback_years is 0 for invest <= 0, None for invest > 0 and annual <= 0,
\* invest / annual for invest > 0 and annual > 0, and never raises.
C4_PaybackCases ==
    PaybackDone =>
        LET invest == call.args[1]
            annual == call.args[2]
        IN  /\ call.ret # ZeroDivisionError
            /\ RLe(invest, Zero) => call.ret = Zero
            /\ (RLt(Zero, invest) /\ RLe(annual, Zero)) => call.ret = None
            /\ (RLt(Zero, invest) /\ RLt(Zero, annual)) =>
                   /\ IsFloat(call.ret)
                   /\ RMul(call.ret, annual) = invest

\* C4 witness: positive investment, annual cash flow 0, no payback
C4_Witness ==
    /\ PaybackDone
    /\ call.args = <<R(400), R(0)>>
    /\ call.ret = None

\* C5: a percentage above 100 gives the result for 100, one below 0 the
\* result for 0, for every generation and consumption; no call is rejected.
C5_PctClamped ==
    AllocDone =>
        /\ IsFloat(call.ret)
        /\ RLt(R(100), call.args[3]) =>
               call.ret = compute_self_consumed_kwh(call.args[1], call.args[2], R(100))
        /\ RLt(call.args[3], Zero) =>
               call.ret = compute_self_consumed_kwh(call.args[1], call.args[2], Zero)

\* C5 witness: 150 % of 500 kWh would be 750 kWh, the result is the 500 of 100 %
C5_Witness ==
    /\ AllocDone
    /\ call.args = <<R(500), R(1000), R(150)>>
    /\ call.ret = R(500)

\* C6: best_20 is the element of results with the greatest total_20y_eur, and
\* among equal maxima the first in the order V1, V2, V3, V4.
C6_BestIsFirstMax ==
    \E b \in 1..4 :
        /\ best_20 = results[b]
        /\ \A k \in 1..4 : RLe(results[k].total_20y_eur, results[b].total_20y_eur)
        /\ \A k \in 1..(b - 1) : RLt(results[k].total_20y_eur, results[b].total_20y_eur)

\* C6 witness: V1 and V2 tie for a positive maximum and V1 is recommended
C6_Witness ==
    /\ results[1].total_20y_eur = results[2].total_20y_eur
    /\ RLt(Zero, results[1].total_20y_eur)
    /\ \A k \in 3..4 : RLt(results[k].total_20y_eur, results[1].total_20y_eur)
    /\ best_20.name = "V1 Volleinspeisung (Marktwert)"

\* C7: each variant's series has 21 points, years 0..20, with
\* value(year) = -invest_eur + annual_cashflow_eur * year; year 0 is -invest_eur.
C7_SeriesLinear ==
    /\ Len(df_line) = 4
    /\ \A k \in 1..4 :
        /\ Len(df_line[k]) = 21
        /\ df_line[k][1] = RNeg(results[k].invest_eur)
        /\ \A y \in 0..20 : df_line[k][y + 1] = Linear(results[k], y)

\* C7 witness: the default V4, starting at -16000 and ending at 20 years
C7_Witness ==
    /\ results[4].invest_eur = R(16000)
    /\ df_line[4][1] = R(-16000)
    /\ df_line[4][21] = results[4].total_20y_eur
    /\ RLt(Zero, df_line[4][21])

\* C8: in V2, V3 and V4 the annual cash flow is
\* self_consumed * retail/100 + exported * export/100 with the allocator's
\* self_consumed and exported = generation - self_consumed; the export price
\* is the market value in V2 and V3 and the EEG rate in V4; for 4500 kWh,
\* 4000 kWh, 30 %, 32 ct and 3.5 ct: 1350 kWh, 3150 kWh and 542.25.
C8_AnnualCashflow ==
    /\ \A k \in 2..4 :
        LET s == compute_self_consumed_kwh(VGen(k), inp.cons, VPct(k))
            x == RSub(VGen(k), s)
        IN  /\ split[k].self_kwh = s
            /\ split[k].export_kwh = x
            /\ results[k].annual_cashflow_eur =
                   RAdd(RMul(s, RDiv(inp.retail_ct, R(100))),
                        RMul(x, RDiv(VExportCt(k), R(100))))
    /\ (/\ inp.gen_old = R(4500)
        /\ inp.cons = R(4000)
        /\ inp.self_v2 = R(30)
        /\ inp.retail_ct = R(32)
        /\ inp.market_ct = Q(7, 2))
       => /\ split[2].self_kwh = R(1350)
          /\ split[2].export_kwh = R(3150)
          /\ results[2].annual_cashflow_eur = Q(2169, 4)

\* C8 witness: the scenario's inputs, with V4's export paid at 8 ct
C8_Witness ==
    /\ inp.gen_old = R(4500)
    /\ inp.cons = R(4000)
    /\ inp.self_v2 = R(30)
    /\ inp.retail_ct = R(32)
    /\ inp.market_ct = Q(7, 2)
    /\ inp.gen_new = R(7000)
    /\ split[4] = [self_kwh |-> R(2450), export_kwh |-> R(4550)]
    /\ results[4].annual_cashflow_eur = R(1148)

====
